---- MODULE Spec2Model ----
(***************************************************************************)
(* Model of the email-triage backend (src/backend.py): the refresh         *)
(* orchestrator (refresh_emails, background_email_refresh), the status     *)
(* record and its file (update_batch_status, load_batch_status,            *)
(* get_refresh_status), the paged mail fetch (fetch_emails_from_graph) and *)
(* the batch job coordinator (process_with_gemini_batch) with its per-line *)
(* demultiplexing of the provider's output stream; the processed-emails    *)
(* file (save_processed_emails, load_processed_emails); and the validation *)
(* endpoints for calendar events and reminders, which the tests exercise.  *)
(***************************************************************************)
EXTENDS Integers, Sequences, FiniteSets, TLC

\* ---------------------------------------------------------------- bounds
MaxEmails == 2      \* messages a fetch can return
MaxLines == 2       \* lines of a provider output stream
MaxRequests == 2    \* requests that arrive (POST /refresh-emails, GET /refresh-status)
PageSize == 1       \* messages of a page of the mail listing ("$top")
MaxBatch == 3       \* messages of a batch whose job answers line by line
MaxStored == 2      \* records of a collection that is saved and loaded
MaxTime == 3        \* points in time a request's dates are drawn from
MaxParts == 3       \* content parts of a response

Requests == 1..MaxRequests

VARIABLES
    batch_status,    \* the global dict
    status_file,     \* batch_status.json
    db_file,         \* processed_emails.json
    now,             \* datetime.now(), as a counter of the readings taken
    rpc,             \* position of each refresh_emails request
    current_status,  \* its local current_status
    response,        \* what the request returned
    ppc,             \* position of the thread each request starts
    all_emails,      \* local of fetch_emails_from_graph
    raw_emails,      \* locals of background_email_refresh
    processed,
    error_msg,
    tmp_file,        \* whether the thread's batch_input_<uuid>.jsonl exists
    job,             \* state of the thread's batch job at the provider
    job_status,      \* the state the last poll returned
    result,          \* what process_with_gemini_batch is about to return
    d_emails,        \* demultiplexing on its own: emails_data,
    d_output,        \*   the downloaded output stream,
    d_pc,            \*   position,
    d_result,        \*   and the outcome
    s_emails,        \* saving and loading on its own: the emails saved,
    s_pc,            \*   position,
    s_loaded,        \*   and what load_processed_emails returned
    v_request,       \* a validation endpoint on its own: the request body
    v_response       \*   and the response

vars == <<batch_status, status_file, db_file, now, rpc, current_status, response,
          ppc, all_emails, raw_emails, processed, error_msg, tmp_file, job, job_status, result,
          d_emails, d_output, d_pc, d_result, s_emails, s_pc, s_loaded,
          v_request, v_response>>

reqvars == <<rpc, current_status, response>>
threadvars == <<all_emails, raw_emails, processed, error_msg, tmp_file, job, job_status, result>>
demuxvars == <<d_emails, d_output, d_pc, d_result>>
storevars == <<s_emails, s_pc, s_loaded>>
apivars == <<v_request, v_response>>
sidevars == <<demuxvars, storevars, apivars>>

\* ------------------------------------------------------- python values
\* a dict key that is not there / a JSON null (Python None)
ABSENT == "<absent>"
NONE == "<None>"

\* dict.get(field, default) on a field that may be missing
Get(v, default) == IF v = ABSENT THEN default ELSE v

\* ------------------------------------------------------- raw messages
\* Graph API message i of the mailbox: subject, from, receivedDateTime,
\* bodyPreview, body.content.  Even-numbered messages are drafts, which
\* carry no 'from'.
RawMessage(i) ==
    [from |-> IF i % 2 = 0 THEN ABSENT ELSE "addr" \o ToString(i),
     subject |-> "subj" \o ToString(i),
     receivedDateTime |-> "date" \o ToString(i),
     bodyPreview |-> "prev" \o ToString(i),
     body |-> "body" \o ToString(i)]

Mailbox(n) == [i \in 1..n |-> RawMessage(i)]

\* ------------------------------------------------- correlation keys
\* req_id = f"req-{i}"
ReqId(i) == <<"req", i>>
NoKey == <<>>
ForeignKey == <<"other", 0>>

\* the "metadata": {"key": req_id} of batch_inputs, in the order of the
\* requests
BatchKeys(emails_data) == [i \in 1..Len(emails_data) |-> ReqId(i - 1)]

\* (a variant that pairs the keys with the messages in reverse)
EmailMap_Reversed(emails_data) ==
    [k \in {ReqId(i - 1) : i \in 1..Len(emails_data)} |->
        emails_data[Len(emails_data) - k[2]]]

\* email_map[req_id] = email, for i, email in enumerate(emails_data)
EmailMap(emails_data) ==
    [k \in {ReqId(i - 1) : i \in 1..Len(emails_data)} |-> emails_data[k[2] + 1]]

\* ----------------------------------------------- model output (JSON)
\* a todos entry and an events entry of the model's answer
TodoIn(title, priority) ==
    [title |-> title, notes |-> ABSENT, due_date |-> ABSENT, priority |-> priority]
EventIn(title, start_date) ==
    [title |-> title, notes |-> ABSENT, location |-> ABSENT,
     start_date |-> start_date, end_date |-> ABSENT]

\* a JSON value: an object with the extraction fields, or a list; a todos or
\* events key that is missing reads as [] (parsed.get('todos', []))
JsonObject(summary, todos, events) ==
    [type |-> "object", summary |-> summary, category |-> ABSENT,
     todos |-> todos, events |-> events]
JsonList == [type |-> "list", summary |-> ABSENT, category |-> ABSENT,
             todos |-> <<>>, events |-> <<>>]
NoJson == [type |-> "none", summary |-> ABSENT, category |-> ABSENT,
           todos |-> <<>>, events |-> <<>>]

\* the answers used as inputs
PTodo == JsonObject("sum", <<TodoIn("todo", <<>>)>>, <<>>)
PBadTodo == JsonObject("sum", <<TodoIn(ABSENT, <<>>)>>, <<>>)
PEvent == JsonObject("sum", <<>>, <<EventIn("event", ABSENT)>>)
PPartlyBad == JsonObject("sum", <<TodoIn("todo", <<>>)>>,
                         <<EventIn(ABSENT, "2025-01-01T10:00:00Z")>>)

\* an answer text is a sequence of tokens
Tok(t) == [tok |-> t, val |-> NoJson]
JsonTok(v) == [tok |-> "json", val |-> v]
FenceJson == Tok("fence_json")   \* the text '''json with backticks
Fence == Tok("fence")            \* three backticks
Ws == Tok(" ")
Braces == Tok("{}")
Garbage == Tok("garbage")

\* ------------------------------------------------------ pydantic models
\* (a variant whose priority defaults to 0, "none")
Todo_DefaultNone(t) ==
    [title |-> t.title, notes |-> Get(t.notes, NONE), due_date |-> Get(t.due_date, NONE),
     priority |-> IF t.priority = <<>> THEN 0 ELSE t.priority[1],
     isCompleted |-> FALSE]

\* class Todo(BaseModel): title required, priority defaults to 5
TodoValid(t) == t.title \notin {ABSENT, NONE}
Todo(t) ==
    [title |-> t.title, notes |-> Get(t.notes, NONE), due_date |-> Get(t.due_date, NONE),
     priority |-> IF t.priority = <<>> THEN 5 ELSE t.priority[1],
     isCompleted |-> FALSE]

\* class Event(BaseModel): title required, everything else optional
EventValid(e) == e.title \notin {ABSENT, NONE}
Event(e) ==
    [title |-> e.title, notes |-> Get(e.notes, NONE), location |-> Get(e.location, "TBD"),
     start_date |-> Get(e.start_date, NONE), end_date |-> Get(e.end_date, NONE),
     all_day |-> FALSE]

\* ------------------------------------------------------ text handling
\* text.replace(FenceJson, "").replace(Fence, "")
StripFences(text) == SelectSeq(text, LAMBDA t : t.tok \notin {"fence_json", "fence"})

\* str.strip()
RECURSIVE LStrip(_)
LStrip(text) ==
    IF text # <<>> /\ Head(text).tok = " " THEN LStrip(Tail(text)) ELSE text
RECURSIVE RStrip(_)
RStrip(text) ==
    IF text # <<>> /\ text[Len(text)].tok = " "
    THEN RStrip(SubSeq(text, 1, Len(text) - 1)) ELSE text
Strip(text) == RStrip(LStrip(text))

\* json.loads(text): one JSON value and nothing else, or it raises
JsonLoadsOk(text) == Len(text) = 1 /\ text[1].tok \in {"{}", "json"}
JsonLoads(text) ==
    IF text[1].tok = "{}" THEN JsonObject(ABSENT, <<>>, <<>>) ELSE text[1].val

\* ------------------------------------------------------ output lines
Part(thought, text) == [thought |-> thought, text |-> text]
Response(parts) == [present |-> TRUE, candidates |-> <<[parts |-> parts]>>]
NoResponse == [present |-> FALSE, candidates |-> <<>>]
JsonLine(custom_id, key, response_data) ==
    [kind |-> "json", custom_id |-> custom_id, key |-> key, response |-> response_data]
BlankLine == [kind |-> "blank", custom_id |-> NoKey, key |-> NoKey, response |-> NoResponse]
NotJsonLine == [kind |-> "notjson", custom_id |-> NoKey, key |-> NoKey, response |-> NoResponse]
BadUtf8Line == [kind |-> "badutf8", custom_id |-> NoKey, key |-> NoKey, response |-> NoResponse]

\* (a variant that looks for a thought in the first part only)
FirstNonThought_OneThought(parts) ==
    IF parts = <<>> THEN <<>>
    ELSE IF ~Head(parts).thought THEN <<Head(parts).text>>
    ELSE IF Len(parts) > 1 THEN <<parts[2].text>>
    ELSE <<>>

\* the first non-thought part text (None when there is none)
RECURSIVE FirstNonThought(_)
FirstNonThought(parts) ==
    IF parts = <<>> THEN <<>>
    ELSE IF ~Head(parts).thought THEN <<Head(parts).text>>
    ELSE FirstNonThought(Tail(parts))

\* ------------------------------------------- process_with_gemini_batch
\* Email(id=..., from_addr=..., ...) built from the original message and
\* the parsed answer
Email(id, original_email, parsed) ==
    [id |-> id,
     from_addr |-> Get(original_email.from, "Unknown"),
     subject |-> Get(original_email.subject, "No Subject"),
     date |-> Get(original_email.receivedDateTime, ""),
     preview |-> Get(original_email.bodyPreview, ""),
     body_html |-> Get(original_email.body, ""),
     summary |-> Get(parsed.summary, NONE),
     category |-> Get(parsed.category, NONE),
     todos |-> [i \in 1..Len(parsed.todos) |-> Todo(parsed.todos[i])],
     events |-> [i \in 1..Len(parsed.events) |-> Event(parsed.events[i])]]

\* (a variant that lets entries through that fail validation)
EmailRaises_TypeOnly(parsed) == parsed.type # "object"

\* the constructor raises: parsed is no dict, or an entry fails validation
EmailRaises(parsed) ==
    \/ parsed.type # "object"
    \/ \E i \in 1..Len(parsed.todos) : ~TodoValid(parsed.todos[i])
    \/ \E i \in 1..Len(parsed.events) : ~EventValid(parsed.events[i])

\* (a variant that only knows the empty string)
EmptyAnswer_OnlyEmptyString(text) == text = <<>>

\* if text in ["{}", ""]
EmptyAnswer(text) == text = <<Braces>> \/ text = <<>>

LineResult(outcome, emails) == [outcome |-> outcome, emails |-> emails]

\* the answer text of a line that has a key, a response and a candidate
AnswerText(line) == FirstNonThought(line.response.candidates[1].parts)

\* one iteration of the loop over the output lines: "blank" (skipped before
\* the try), "skip" (nothing appended, nothing logged), "error" (the except
\* branch printed the line) or "record" (one Email appended)
ProcessLine(email_map, line, id) ==
    IF line.kind = "blank" THEN LineResult("blank", <<>>)
    ELSE IF line.kind = "notjson" THEN LineResult("error", <<>>)
    ELSE
      LET key == IF line.custom_id = NoKey THEN line.key ELSE line.custom_id
      IN
      IF key = NoKey \/ ~line.response.present \/ line.response.candidates = <<>>
      THEN LineResult("skip", <<>>)
      ELSE
        LET found == AnswerText(line)
        IN
        IF found = <<>> \/ found[1] = <<>> THEN LineResult("skip", <<>>)
        ELSE
          LET text == Strip(StripFences(found[1]))
          IN
          IF EmptyAnswer(text) THEN LineResult("skip", <<>>)
          ELSE IF ~JsonLoadsOk(text) THEN LineResult("error", <<>>)
          ELSE IF key \notin DOMAIN email_map THEN LineResult("skip", <<>>)
          ELSE IF EmailRaises(JsonLoads(text)) THEN LineResult("error", <<>>)
          ELSE LineResult("record", <<Email(id, email_map[key], JsonLoads(text))>>)

\* output_content.decode('utf-8') raises on bytes that are not UTF-8
DecodeRaises(output_content) ==
    \E i \in 1..Len(output_content) : output_content[i].kind = "badutf8"

\* the loop over enumerate(lines, 1): the records appended and the line
\* numbers the except branch logged
RECURSIVE DemuxLoop(_, _, _, _, _)
DemuxLoop(email_map, lines, line_num, processed_emails, logged) ==
    IF line_num > Len(lines)
    THEN [raised |-> FALSE, processed_emails |-> processed_emails, logged |-> logged]
    ELSE
      LET r == ProcessLine(email_map, lines[line_num], Len(processed_emails) + 1)
      IN DemuxLoop(email_map, lines, line_num + 1, processed_emails \o r.emails,
                   IF r.outcome = "error" THEN Append(logged, line_num) ELSE logged)

\* download, decode and demultiplex; a decode error leaves the function
\* through its outer except, which returns []
Demultiplex(emails_data, output_content) ==
    IF DecodeRaises(output_content)
    THEN [raised |-> TRUE, processed_emails |-> <<>>, logged |-> <<>>]
    ELSE DemuxLoop(EmailMap(emails_data), output_content, 1, <<>>, <<>>)

\* ------------------------------------------------ processed_emails.json
\* JSON values as json.dumps writes them and json.load reads them
JNull == [j |-> "null", v |-> ""]
JString(s) == [j |-> "string", v |-> s]
JNumber(n) == [j |-> "number", v |-> n]
JBool(b) == [j |-> IF b THEN "true" ELSE "false", v |-> ""]
JArray(items) == [j |-> "array", v |-> items]
JDict(fields) == [j |-> "object", v |-> fields]

\* an Optional[str] field: None is written as null
JOptional(x) == IF x = NONE THEN JNull ELSE JString(x)

\* e.dict() of the nested models and of an Email, as json.dumps writes it
TodoDict(t) ==
    JDict([title |-> JString(t.title), notes |-> JOptional(t.notes),
           due_date |-> JOptional(t.due_date), priority |-> JNumber(t.priority),
           isCompleted |-> JBool(t.isCompleted)])
EventDict(e) ==
    JDict([title |-> JString(e.title), notes |-> JOptional(e.notes),
           location |-> JOptional(e.location), start_date |-> JOptional(e.start_date),
           end_date |-> JOptional(e.end_date), all_day |-> JBool(e.all_day)])
EmailDict(e) ==
    JDict([id |-> JString(e.id), from_addr |-> JString(e.from_addr),
           subject |-> JString(e.subject), date |-> JString(e.date),
           preview |-> JString(e.preview), body_html |-> JString(e.body_html),
           summary |-> JOptional(e.summary), category |-> JOptional(e.category),
           todos |-> JArray([i \in 1..Len(e.todos) |-> TodoDict(e.todos[i])]),
           events |-> JArray([i \in 1..Len(e.events) |-> EventDict(e.events[i])])])

\* json.dumps([e.dict() for e in emails], indent=2): the text of the file,
\* one JSON document
JsonDumpsEmails(emails) == <<JArray([i \in 1..Len(emails) |-> EmailDict(emails[i])])>>

\* what validation makes of a JSON value for an Optional[str] field that
\* is given: null is None (the default is for a key that is missing)
ParseOptional(x) == IF x.j = "null" THEN NONE ELSE x.v

\* Todo(**item), Event(**item) and Email(**item) on the dicts json.load
\* returns
ParseTodo(item) ==
    [title |-> item.v.title.v, notes |-> ParseOptional(item.v.notes),
     due_date |-> ParseOptional(item.v.due_date), priority |-> item.v.priority.v,
     isCompleted |-> item.v.isCompleted.j = "true"]

\* (a variant that takes null for a missing key and so gives the default)
ParseEvent_NullIsMissing(item) ==
    [title |-> item.v.title.v, notes |-> ParseOptional(item.v.notes),
     location |-> IF item.v.location.j = "null" THEN "TBD" ELSE item.v.location.v,
     start_date |-> ParseOptional(item.v.start_date),
     end_date |-> ParseOptional(item.v.end_date),
     all_day |-> item.v.all_day.j = "true"]

ParseEvent(item) ==
    [title |-> item.v.title.v, notes |-> ParseOptional(item.v.notes),
     location |-> ParseOptional(item.v.location),
     start_date |-> ParseOptional(item.v.start_date),
     end_date |-> ParseOptional(item.v.end_date),
     all_day |-> item.v.all_day.j = "true"]
ParseEmail(item) ==
    [id |-> item.v.id.v, from_addr |-> item.v.from_addr.v, subject |-> item.v.subject.v,
     date |-> item.v.date.v, preview |-> item.v.preview.v,
     body_html |-> item.v.body_html.v,
     summary |-> ParseOptional(item.v.summary),
     category |-> ParseOptional(item.v.category),
     todos |-> [i \in 1..Len(item.v.todos.v) |-> ParseTodo(item.v.todos.v[i])],
     events |-> [i \in 1..Len(item.v.events.v) |-> ParseEvent(item.v.events.v[i])]]

\* [Email(**item) for item in data]
ParseEmails(text) == [i \in 1..Len(text[1].v) |-> ParseEmail(text[1].v[i])]

\* ------------------------------------------------------ status record
Status(status, message, last_updated, count) ==
    [status |-> status, message |-> message, last_updated |-> last_updated,
     count |-> count]

\* batch_status = {"status": "idle", "message": "", "last_updated": None, "count": 0}
\* (last_updated 0 stands for None)
InitialStatus == Status("idle", "", 0, 0)

File(state, content) == [state |-> state, content |-> content]

\* update_batch_status, batch_status["status"] = status and
\* batch_status["message"] = message
UpdateSet(status, message) ==
    /\ batch_status' = [batch_status EXCEPT !.status = status, !.message = message]
    /\ UNCHANGED <<now, status_file>>

\* then batch_status["last_updated"] = datetime.now().isoformat(),
\* batch_status["count"] = count and open(BATCH_STATUS_FILE, "w"), which
\* truncates the file
UpdateBegin(count) ==
    /\ batch_status' = [batch_status EXCEPT !.last_updated = now + 1, !.count = count]
    /\ now' = now + 1
    /\ status_file' = File("torn", InitialStatus)

\* json.dump(batch_status, f) and the close of the file: the file now holds
\* the dict as it is at this moment
UpdateEnd ==
    /\ status_file' = File("ok", batch_status)
    /\ UNCHANGED <<batch_status, now>>

\* load_batch_status: the file's content when the file exists, else a copy
\* of the dict; json.load raises on a file that is being rewritten
LoadRaises == status_file.state = "torn"
load_batch_status ==
    IF status_file.state = "ok" THEN status_file.content ELSE batch_status

\* ------------------------------------------------------ refresh_emails
Running == {"fetching", "processing"}

\* (a variant that keeps a rejected request to run its pipeline anyway)
RefreshLoad_Queues(r) ==
    /\ rpc[r] = "new"
    /\ IF LoadRaises
       THEN /\ rpc' = [rpc EXCEPT ![r] = "returned"]
            /\ response' = [response EXCEPT ![r] = "error"]
            /\ UNCHANGED <<current_status, ppc>>
       ELSE /\ current_status' = [current_status EXCEPT ![r] = load_batch_status]
            /\ IF load_batch_status.status \in Running
               THEN /\ rpc' = [rpc EXCEPT ![r] = "returned"]
                    /\ response' = [response EXCEPT ![r] = "already_running"]
                    /\ ppc' = [ppc EXCEPT ![r] = "fetching_set"]
               ELSE /\ rpc' = [rpc EXCEPT ![r] = "set"]
                    /\ UNCHANGED <<response, ppc>>
    /\ UNCHANGED <<batch_status, status_file, db_file, now, threadvars, sidevars>>

\* current_status = load_batch_status() and the check on it
RefreshLoad(r) ==
    /\ rpc[r] = "new"
    /\ IF LoadRaises
       THEN /\ rpc' = [rpc EXCEPT ![r] = "returned"]
            /\ response' = [response EXCEPT ![r] = "error"]
            /\ UNCHANGED current_status
       ELSE /\ current_status' = [current_status EXCEPT ![r] = load_batch_status]
            /\ IF load_batch_status.status \in Running
               THEN /\ rpc' = [rpc EXCEPT ![r] = "returned"]
                    /\ response' = [response EXCEPT ![r] = "already_running"]
               ELSE /\ rpc' = [rpc EXCEPT ![r] = "set"]
                    /\ UNCHANGED response
    /\ UNCHANGED <<batch_status, status_file, db_file, now, ppc, threadvars, sidevars>>

\* update_batch_status("fetching", "Starting email refresh..."), its steps
RefreshSet(r) ==
    /\ rpc[r] = "set"
    /\ UpdateSet("fetching", "Starting email refresh...")
    /\ rpc' = [rpc EXCEPT ![r] = "update"]
    /\ UNCHANGED <<db_file, current_status, response, ppc, threadvars, sidevars>>
RefreshUpdate(r) ==
    /\ rpc[r] = "update"
    /\ UpdateBegin(0)
    /\ rpc' = [rpc EXCEPT ![r] = "write"]
    /\ UNCHANGED <<db_file, current_status, response, ppc, threadvars, sidevars>>

\* its last step, thread.start() and the return statement
RefreshStart(r) ==
    /\ rpc[r] = "write"
    /\ UpdateEnd
    /\ ppc' = [ppc EXCEPT ![r] = "fetching_set"]
    /\ rpc' = [rpc EXCEPT ![r] = "respond"]
    /\ UNCHANGED <<db_file, current_status, response, threadvars, sidevars>>

\* the response {"status": "started", ..., "batch_status": batch_status} is
\* encoded and sent: it carries the global dict as it is at that moment
RefreshRespond(r) ==
    /\ rpc[r] = "respond"
    /\ rpc' = [rpc EXCEPT ![r] = "returned"]
    /\ response' = [response EXCEPT ![r] = "started"]
    /\ UNCHANGED <<batch_status, status_file, db_file, now, current_status, ppc,
                   threadvars, sidevars>>

\* ------------------------------------------------- get_refresh_status
\* the request is a GET /refresh-status: return load_batch_status(), which
\* the client receives as the status record, or as an error when the load
\* raises
get_refresh_status(r) ==
    /\ rpc[r] = "new"
    /\ rpc' = [rpc EXCEPT ![r] = "got"]
    /\ response' = [response EXCEPT ![r] = IF LoadRaises THEN "error" ELSE "status"]
    /\ UNCHANGED <<batch_status, status_file, db_file, now, current_status, ppc,
                   threadvars, sidevars>>

\* --------------------------------------------- background_email_refresh
\* a local that has no value yet, and one that has
Unset == <<>>
Val(x) == <<x>>

SeqsUpTo(S, n) == UNION {[1..k -> S] : k \in 0..n}

AuthError == "Error during refresh: Authentication failed. Please login via the app."
WriteError == "Error during refresh: [Errno 28] No space left on device"
ProcessingMessage(n) == "Processing " \o ToString(n) \o " emails with Gemini Batch API..."

\* the steps of one of the thread's update_batch_status calls
ThreadSet(p, from, to, status, message) ==
    /\ ppc[p] = from
    /\ UpdateSet(status, message)
    /\ ppc' = [ppc EXCEPT ![p] = to]
    /\ UNCHANGED <<db_file, reqvars, threadvars, sidevars>>
ThreadUpdate(p, from, to, count) ==
    /\ ppc[p] = from
    /\ UpdateBegin(count)
    /\ ppc' = [ppc EXCEPT ![p] = to]
    /\ UNCHANGED <<db_file, reqvars, threadvars, sidevars>>
ThreadWrite(p, from, to) ==
    /\ ppc[p] = from
    /\ UpdateEnd
    /\ ppc' = [ppc EXCEPT ![p] = to]
    /\ UNCHANGED <<db_file, reqvars, threadvars, sidevars>>

\* update_batch_status("fetching", "Fetching emails from Microsoft Graph...")
FetchingSet(p) ==
    ThreadSet(p, "fetching_set", "fetching_upd", "fetching",
              "Fetching emails from Microsoft Graph...")
FetchingUpdate(p) == ThreadUpdate(p, "fetching_upd", "fetching_write", 0)
FetchingWrite(p) == ThreadWrite(p, "fetching_write", "fetch")

\* raw_emails = fetch_emails_from_graph(days=7), up to the loop: no token
\* raises, else all_emails = []
Fetch(p) ==
    /\ ppc[p] = "fetch"
    /\ \/ /\ error_msg' = [error_msg EXCEPT ![p] = AuthError]
          /\ ppc' = [ppc EXCEPT ![p] = "error_set"]
          /\ UNCHANGED all_emails
       \/ /\ all_emails' = [all_emails EXCEPT ![p] = <<>>]
          /\ ppc' = [ppc EXCEPT ![p] = "fetch_page"]
          /\ UNCHANGED error_msg
    /\ UNCHANGED <<batch_status, status_file, db_file, now, reqvars, raw_emails,
                   processed, tmp_file, job, job_status, result, sidevars>>

\* the page the listing returns after the messages already fetched
Page(fetched, k) == [i \in 1..k |-> RawMessage(Len(fetched) + i)]

\* (a variant that gives up what it has when a page request fails)
FetchPage_DropsPages(p) ==
    /\ ppc[p] = "fetch_page"
    /\ \/ /\ ppc' = [ppc EXCEPT ![p] = "fetch_except"]
          /\ all_emails' = [all_emails EXCEPT ![p] = <<>>]
          /\ UNCHANGED raw_emails
       \/ \E k \in 0..PageSize, more \in BOOLEAN :
             /\ Len(all_emails[p]) + k <= MaxEmails
             /\ more => (k > 0 /\ Len(all_emails[p]) + k < MaxEmails)
             /\ IF more
                THEN /\ all_emails' = [all_emails EXCEPT ![p] = @ \o Page(@, k)]
                     /\ UNCHANGED <<ppc, raw_emails>>
                ELSE /\ raw_emails' = [raw_emails EXCEPT
                                         ![p] = Val(all_emails[p] \o Page(all_emails[p], k))]
                     /\ all_emails' = [all_emails EXCEPT ![p] = <<>>]
                     /\ ppc' = [ppc EXCEPT ![p] = "processing_set"]
    /\ UNCHANGED <<batch_status, status_file, db_file, now, reqvars, processed,
                   error_msg, tmp_file, job, job_status, result, sidevars>>

\* one round of the page loop: requests.get, raise_for_status and json()
\* raise into the except; else the page is appended, and the loop goes on
\* while there is an @odata.nextLink, else all_emails is returned
FetchPage(p) ==
    /\ ppc[p] = "fetch_page"
    /\ \/ /\ ppc' = [ppc EXCEPT ![p] = "fetch_except"]
          /\ UNCHANGED <<all_emails, raw_emails>>
       \/ \E k \in 0..PageSize, more \in BOOLEAN :
             /\ Len(all_emails[p]) + k <= MaxEmails
             /\ more => (k > 0 /\ Len(all_emails[p]) + k < MaxEmails)
             /\ IF more
                THEN /\ all_emails' = [all_emails EXCEPT ![p] = @ \o Page(@, k)]
                     /\ UNCHANGED <<ppc, raw_emails>>
                ELSE /\ raw_emails' = [raw_emails EXCEPT
                                         ![p] = Val(all_emails[p] \o Page(all_emails[p], k))]
                     /\ all_emails' = [all_emails EXCEPT ![p] = <<>>]
                     /\ ppc' = [ppc EXCEPT ![p] = "processing_set"]
    /\ UNCHANGED <<batch_status, status_file, db_file, now, reqvars, processed,
                   error_msg, tmp_file, job, job_status, result, sidevars>>

\* except Exception: return all_emails, what has been fetched so far
FetchExcept(p) ==
    /\ ppc[p] = "fetch_except"
    /\ raw_emails' = [raw_emails EXCEPT ![p] = Val(all_emails[p])]
    /\ all_emails' = [all_emails EXCEPT ![p] = <<>>]
    /\ ppc' = [ppc EXCEPT ![p] = "processing_set"]
    /\ UNCHANGED <<batch_status, status_file, db_file, now, reqvars, processed,
                   error_msg, tmp_file, job, job_status, result, sidevars>>

\* update_batch_status("processing", f"Processing {len(raw_emails)} emails ...")
ProcessingSet(p) ==
    ThreadSet(p, "processing_set", "processing_upd", "processing",
              ProcessingMessage(Len(raw_emails[p][1])))
ProcessingUpdate(p) == ThreadUpdate(p, "processing_upd", "processing_write", 0)
ProcessingWrite(p) == ThreadWrite(p, "processing_write", "batch")

\* (a variant without the early return for no messages)
BatchBegin_NoShortCircuit(p) ==
    /\ ppc[p] = "batch"
    /\ tmp_file' = [tmp_file EXCEPT ![p] = TRUE]
    /\ ppc' = [ppc EXCEPT ![p] = "submit"]
    /\ UNCHANGED <<batch_status, status_file, db_file, now, reqvars, all_emails, raw_emails,
                   processed, error_msg, job, job_status, result, sidevars>>

\* process_with_gemini_batch(raw_emails) up to the try: nothing to do for
\* no messages, else the requests are built and the temp file is opened
\* and written; a write that raises (the with block is before the try)
\* leaves the function with the file in place and is caught by
\* background_email_refresh
BatchBegin(p) ==
    /\ ppc[p] = "batch"
    /\ IF raw_emails[p][1] = <<>>
       THEN /\ processed' = [processed EXCEPT ![p] = Val(<<>>)]
            /\ ppc' = [ppc EXCEPT ![p] = "save"]
            /\ UNCHANGED <<tmp_file, error_msg>>
       ELSE /\ tmp_file' = [tmp_file EXCEPT ![p] = TRUE]
            /\ \/ ppc' = [ppc EXCEPT ![p] = "submit"] /\ UNCHANGED error_msg
               \/ /\ ppc' = [ppc EXCEPT ![p] = "error_set"]
                  /\ error_msg' = [error_msg EXCEPT ![p] = WriteError]
            /\ UNCHANGED processed
    /\ UNCHANGED <<batch_status, status_file, db_file, now, reqvars, all_emails, raw_emails,
                   job, job_status, result, sidevars>>

\* client.files.upload and client.batches.create: either raises into the
\* outer except, which returns []
Submit(p) ==
    /\ ppc[p] = "submit"
    /\ \/ /\ job' = [job EXCEPT ![p] = "JOB_STATE_PENDING"]
          /\ ppc' = [ppc EXCEPT ![p] = "poll"]
          /\ UNCHANGED result
       \/ /\ result' = [result EXCEPT ![p] = <<>>]
          /\ ppc' = [ppc EXCEPT ![p] = "finally"]
          /\ UNCHANGED job
    /\ UNCHANGED <<batch_status, status_file, db_file, now, reqvars, all_emails, raw_emails,
                   processed, error_msg, tmp_file, job_status, sidevars>>

\* the provider finishes the job
JobAdvance(p) ==
    /\ job[p] = "JOB_STATE_PENDING"
    /\ \E s \in {"JOB_STATE_SUCCEEDED", "JOB_STATE_FAILED", "JOB_STATE_CANCELLED"} :
          job' = [job EXCEPT ![p] = s]
    /\ UNCHANGED <<batch_status, status_file, db_file, now, reqvars, ppc, all_emails, raw_emails,
                   processed, error_msg, tmp_file, job_status, result, sidevars>>

\* (a variant that leaves the loop on the first answer that is no failure)
Poll_BreaksEarly(p) ==
    /\ ppc[p] = "poll"
    /\ job_status' = [job_status EXCEPT ![p] = job[p]]
    /\ IF job[p] \in {"JOB_STATE_FAILED", "JOB_STATE_CANCELLED"}
       THEN /\ ppc' = [ppc EXCEPT ![p] = "finally"]
            /\ result' = [result EXCEPT ![p] = <<>>]
       ELSE ppc' = [ppc EXCEPT ![p] = "download"] /\ UNCHANGED result
    /\ UNCHANGED <<batch_status, status_file, db_file, now, reqvars, all_emails, raw_emails,
                   processed, error_msg, tmp_file, job, sidevars>>

\* one round of the poll loop: client.batches.get, then break, raise or sleep
Poll(p) ==
    /\ ppc[p] = "poll"
    /\ job_status' = [job_status EXCEPT ![p] = job[p]]
    /\ IF job[p] = "JOB_STATE_SUCCEEDED"
       THEN ppc' = [ppc EXCEPT ![p] = "download"] /\ UNCHANGED result
       ELSE IF job[p] \in {"JOB_STATE_FAILED", "JOB_STATE_CANCELLED"}
       THEN /\ ppc' = [ppc EXCEPT ![p] = "finally"]
            /\ result' = [result EXCEPT ![p] = <<>>]
       ELSE UNCHANGED <<ppc, result>>
    /\ UNCHANGED <<batch_status, status_file, db_file, now, reqvars, all_emails, raw_emails,
                   processed, error_msg, tmp_file, job, sidevars>>

\* the lines a job's output stream is made of in the refresh cycles
JobLines ==
    {JsonLine(NoKey, ReqId(0), Response(<<Part(FALSE, <<JsonTok(PTodo)>>)>>)),
     JsonLine(NoKey, ReqId(0), Response(<<Part(FALSE, <<Braces>>)>>)),
     JsonLine(NoKey, ReqId(0), Response(<<Part(FALSE, <<JsonTok(PBadTodo)>>)>>)),
     BadUtf8Line}

\* after the loop: no output file in the job status (a warning, []), a
\* download that raises ([] from the outer except), or the demultiplexed
\* records of the downloaded stream
Download(p) ==
    /\ ppc[p] = "download"
    /\ \/ result' = [result EXCEPT ![p] = <<>>]
       \/ \E out \in SeqsUpTo(JobLines, MaxLines) :
             result' = [result EXCEPT
                          ![p] = Demultiplex(raw_emails[p][1], out).processed_emails]
    /\ ppc' = [ppc EXCEPT ![p] = "finally"]
    /\ UNCHANGED <<batch_status, status_file, db_file, now, reqvars, all_emails, raw_emails,
                   processed, error_msg, tmp_file, job, job_status, sidevars>>

\* finally: os.remove(jsonl_filename), and the function returns
Finally(p) ==
    /\ ppc[p] = "finally"
    /\ tmp_file' = [tmp_file EXCEPT ![p] = FALSE]
    /\ processed' = [processed EXCEPT ![p] = Val(result[p])]
    /\ ppc' = [ppc EXCEPT ![p] = "save"]
    /\ UNCHANGED <<batch_status, status_file, db_file, now, reqvars, all_emails, raw_emails,
                   error_msg, job, job_status, result, sidevars>>

\* save_processed_emails(processed): open(PROCESSED_DB_FILE, "w") ...
Save(p) ==
    /\ ppc[p] = "save"
    /\ db_file' = File("torn", <<>>)
    /\ ppc' = [ppc EXCEPT ![p] = "save_write"]
    /\ UNCHANGED <<batch_status, status_file, now, reqvars, threadvars, sidevars>>

\* ... and f.write(json.dumps([e.dict() for e in emails]))
SaveWrite(p) ==
    /\ ppc[p] = "save_write"
    /\ db_file' = File("ok", JsonDumpsEmails(processed[p][1]))
    /\ ppc' = [ppc EXCEPT ![p] = "completed_set"]
    /\ UNCHANGED <<batch_status, status_file, now, reqvars, threadvars, sidevars>>

\* update_batch_status("completed", "Successfully processed emails", len(processed))
CompletedSet(p) ==
    ThreadSet(p, "completed_set", "completed_upd", "completed",
              "Successfully processed emails")
CompletedUpdate(p) ==
    ThreadUpdate(p, "completed_upd", "completed_write", Len(processed[p][1]))
CompletedWrite(p) == ThreadWrite(p, "completed_write", "done")

\* (a variant whose except branch lets go of the error)
ErrorSet_Swallows(p) ==
    /\ ppc[p] = "error_set"
    /\ ppc' = [ppc EXCEPT ![p] = "done"]
    /\ UNCHANGED <<batch_status, status_file, db_file, now, reqvars, threadvars, sidevars>>

\* except Exception as e: update_batch_status("error", error_msg)
ErrorSet(p) == ThreadSet(p, "error_set", "error_upd", "error", error_msg[p])
ErrorUpdate(p) == ThreadUpdate(p, "error_upd", "error_write", 0)
ErrorWrite(p) == ThreadWrite(p, "error_write", "done")

background_email_refresh(p) ==
    \/ FetchingSet(p) \/ FetchingUpdate(p) \/ FetchingWrite(p)
    \/ Fetch(p) \/ FetchPage(p) \/ FetchExcept(p)
    \/ ProcessingSet(p) \/ ProcessingUpdate(p) \/ ProcessingWrite(p)
    \/ BatchBegin(p) \/ Submit(p) \/ Poll(p) \/ Download(p) \/ Finally(p)
    \/ Save(p) \/ SaveWrite(p)
    \/ CompletedSet(p) \/ CompletedUpdate(p) \/ CompletedWrite(p)
    \/ ErrorSet(p) \/ ErrorUpdate(p) \/ ErrorWrite(p)

refresh_emails(r) ==
    RefreshLoad(r) \/ RefreshSet(r) \/ RefreshUpdate(r) \/ RefreshStart(r) \/ RefreshRespond(r)

\* ------------------------------------------------------ specification
NoResult == [raised |-> FALSE, processed_emails |-> <<>>, logged |-> <<>>]
NoRequest == [path |-> "none", body |-> <<>>]
NoAnswer == [code |-> 0, success |-> FALSE, message |-> "", data |-> <<>>]

\* the parts of the state a specification leaves at rest
StoreOff == s_emails = <<>> /\ s_pc = "off" /\ s_loaded = <<>>
ApiOff == v_request = NoRequest /\ v_response = NoAnswer

\* the status file a previous run of the server left behind (its time
\* stamps, -1, are older than any of this run)
LeftoverFiles ==
    {File("absent", InitialStatus),
     File("ok", Status("completed", "Successfully processed emails", -1, 0)),
     File("ok", Status("processing", ProcessingMessage(1), -1, 0))}

Init ==
    /\ batch_status = InitialStatus
    /\ status_file \in LeftoverFiles
    /\ db_file = File("absent", <<>>)
    /\ now = 0
    /\ rpc = [r \in Requests |-> "new"]
    /\ current_status = [r \in Requests |-> InitialStatus]
    /\ response = [r \in Requests |-> "none"]
    /\ ppc = [r \in Requests |-> "none"]
    /\ all_emails = [r \in Requests |-> <<>>]
    /\ raw_emails = [r \in Requests |-> Unset]
    /\ processed = [r \in Requests |-> Unset]
    /\ error_msg = [r \in Requests |-> ""]
    /\ tmp_file = [r \in Requests |-> FALSE]
    /\ job = [r \in Requests |-> "none"]
    /\ job_status = [r \in Requests |-> "none"]
    /\ result = [r \in Requests |-> <<>>]
    /\ d_emails = <<>>
    /\ d_output = <<>>
    /\ d_pc = "off"
    /\ d_result = NoResult
    /\ StoreOff
    /\ ApiOff

Next ==
    \/ \E r \in Requests : refresh_emails(r)
    \/ \E p \in Requests : background_email_refresh(p)
    \/ \E r \in Requests : get_refresh_status(r)
    \/ \E p \in Requests : JobAdvance(p)

Spec == Init /\ [][Next]_vars

\* a request that arrives need not be followed by another, but a handler
\* that has accepted a request runs on, a started thread runs on (each call
\* it makes returns), and the provider brings a job to an end
Fairness ==
    \A p \in Requests :
        /\ WF_vars(RefreshSet(p) \/ RefreshUpdate(p) \/ RefreshStart(p) \/ RefreshRespond(p))
        /\ WF_vars(background_email_refresh(p))
        /\ WF_vars(JobAdvance(p))

LiveSpec == Init /\ [][Next]_vars /\ Fairness

\* ------------------------------------- demultiplexing taken on its own
\* the keys, responses and lines an output stream is drawn from
OutputKeys == {NoKey, ReqId(0), ReqId(1), ForeignKey}

ValidText == <<JsonTok(PTodo)>>

OutputResponses ==
    {NoResponse,
     [present |-> TRUE, candidates |-> <<>>],
     Response(<<Part(TRUE, ValidText)>>),
     Response(<<Part(TRUE, <<Garbage>>), Part(FALSE, ValidText)>>),
     Response(<<Part(FALSE, <<>>)>>),
     Response(<<Part(FALSE, <<Braces>>)>>),
     Response(<<Part(FALSE, <<FenceJson, Ws, Braces, Ws, Fence>>)>>),
     Response(<<Part(FALSE, <<Garbage>>)>>),
     Response(<<Part(FALSE, ValidText)>>),
     Response(<<Part(FALSE, <<FenceJson, JsonTok(PEvent), Fence>>)>>),
     Response(<<Part(FALSE, <<JsonTok(PBadTodo)>>)>>)}

OutputLines ==
    {BlankLine, NotJsonLine, BadUtf8Line}
    \cup {JsonLine(NoKey, k, r) : k \in OutputKeys, r \in OutputResponses}
    \cup {JsonLine(c, ReqId(0), Response(<<Part(FALSE, ValidText)>>)) :
             c \in {ReqId(1), ForeignKey}}

DemuxInit ==
    /\ batch_status = InitialStatus
    /\ status_file = File("absent", InitialStatus)
    /\ db_file = File("absent", <<>>)
    /\ now = 0
    /\ rpc = [r \in Requests |-> "new"]
    /\ current_status = [r \in Requests |-> InitialStatus]
    /\ response = [r \in Requests |-> "none"]
    /\ ppc = [r \in Requests |-> "none"]
    /\ all_emails = [r \in Requests |-> <<>>]
    /\ raw_emails = [r \in Requests |-> Unset]
    /\ processed = [r \in Requests |-> Unset]
    /\ error_msg = [r \in Requests |-> ""]
    /\ tmp_file = [r \in Requests |-> FALSE]
    /\ job = [r \in Requests |-> "none"]
    /\ job_status = [r \in Requests |-> "none"]
    /\ result = [r \in Requests |-> <<>>]
    /\ d_emails \in {Mailbox(n) : n \in 1..MaxEmails}
    /\ d_output \in SeqsUpTo(OutputLines, MaxLines)
    /\ d_pc = "download"
    /\ d_result = NoResult
    /\ StoreOff
    /\ ApiOff

\* the downloaded stream is decoded and demultiplexed
DemuxRun ==
    /\ d_pc = "download"
    /\ d_result' = Demultiplex(d_emails, d_output)
    /\ d_pc' = "returned"
    /\ UNCHANGED <<batch_status, status_file, db_file, now, reqvars, ppc, threadvars,
                   d_emails, d_output, storevars, apivars>>

DemuxNext == DemuxRun

DemuxSpec == DemuxInit /\ [][DemuxNext]_vars

\* ------------------------------- a job that answers each request once
\* the line the job writes for request i: its answer is "{}", text that is
\* no JSON, an extraction with one todo and no events, an extraction whose
\* todo has no title, or one with a good todo and an event without title;
\* or the line is no JSON, is no UTF-8, or has a key of another batch
AnswerLine(i, text) == JsonLine(NoKey, ReqId(i - 1), Response(<<Part(FALSE, text)>>))
LinesFor(i) ==
    {AnswerLine(i, <<Braces>>), AnswerLine(i, <<Garbage>>), AnswerLine(i, ValidText),
     AnswerLine(i, <<JsonTok(PBadTodo)>>), AnswerLine(i, <<JsonTok(PPartlyBad)>>),
     NotJsonLine, BadUtf8Line,
     JsonLine(NoKey, ForeignKey, Response(<<Part(FALSE, ValidText)>>))}

BatchInit ==
    /\ batch_status = InitialStatus
    /\ status_file = File("absent", InitialStatus)
    /\ db_file = File("absent", <<>>)
    /\ now = 0
    /\ rpc = [r \in Requests |-> "new"]
    /\ current_status = [r \in Requests |-> InitialStatus]
    /\ response = [r \in Requests |-> "none"]
    /\ ppc = [r \in Requests |-> "none"]
    /\ all_emails = [r \in Requests |-> <<>>]
    /\ raw_emails = [r \in Requests |-> Unset]
    /\ processed = [r \in Requests |-> Unset]
    /\ error_msg = [r \in Requests |-> ""]
    /\ tmp_file = [r \in Requests |-> FALSE]
    /\ job = [r \in Requests |-> "none"]
    /\ job_status = [r \in Requests |-> "none"]
    /\ result = [r \in Requests |-> <<>>]
    /\ d_emails = Mailbox(MaxBatch)
    /\ d_output \in {out \in [1..MaxBatch -> UNION {LinesFor(i) : i \in 1..MaxBatch}] :
                        \A i \in 1..MaxBatch : out[i] \in LinesFor(i)}
    /\ d_pc = "download"
    /\ d_result = NoResult
    /\ StoreOff
    /\ ApiOff

BatchSpec == BatchInit /\ [][DemuxNext]_vars

\* ------------------------------- a response of several content parts
\* the parts: thoughts, whose text is prose or an extraction the model
\* considered, and parts that are no thoughts, whose text is one of two
\* extractions or "{}"
PSecond == JsonObject("second", <<>>, <<EventIn("other", "2025-01-01T10:00:00Z")>>)
PartKinds ==
    {Part(TRUE, <<Garbage>>), Part(TRUE, ValidText),
     Part(FALSE, <<JsonTok(PEvent)>>), Part(FALSE, <<JsonTok(PSecond)>>),
     Part(FALSE, <<Braces>>)}

\* the job's output is one line, the response for the one message
PartsInit ==
    /\ batch_status = InitialStatus
    /\ status_file = File("absent", InitialStatus)
    /\ db_file = File("absent", <<>>)
    /\ now = 0
    /\ rpc = [r \in Requests |-> "new"]
    /\ current_status = [r \in Requests |-> InitialStatus]
    /\ response = [r \in Requests |-> "none"]
    /\ ppc = [r \in Requests |-> "none"]
    /\ all_emails = [r \in Requests |-> <<>>]
    /\ raw_emails = [r \in Requests |-> Unset]
    /\ processed = [r \in Requests |-> Unset]
    /\ error_msg = [r \in Requests |-> ""]
    /\ tmp_file = [r \in Requests |-> FALSE]
    /\ job = [r \in Requests |-> "none"]
    /\ job_status = [r \in Requests |-> "none"]
    /\ result = [r \in Requests |-> <<>>]
    /\ d_emails = Mailbox(1)
    /\ d_output \in {<<JsonLine(NoKey, ReqId(0), Response(parts))>> :
                        parts \in SeqsUpTo(PartKinds, MaxParts)}
    /\ d_pc = "download"
    /\ d_result = NoResult
    /\ StoreOff
    /\ ApiOff

PartsSpec == PartsInit /\ [][DemuxNext]_vars

\* ------------------------------------------ saving and loading on its own
\* records as the Email, Todo and Event models hold them
StoredTodos ==
    <<Todo(TodoIn("todo", <<>>)),
      [title |-> "call", notes |-> "by phone", due_date |-> "2025-01-02T09:00:00Z",
       priority |-> 1, isCompleted |-> TRUE]>>
StoredEvents ==
    <<Event(EventIn("event", ABSENT)),
      [title |-> "meeting", notes |-> NONE, location |-> NONE,
       start_date |-> "2025-01-01T10:00:00Z", end_date |-> "2025-01-01T11:00:00Z",
       all_day |-> TRUE]>>
StoredEmails ==
    {Email(1, RawMessage(1), JsonObject(ABSENT, <<>>, <<>>)),
     Email(2, RawMessage(1), PTodo),
     Email(3, RawMessage(2), PEvent),
     [Email(4, RawMessage(1), PTodo) EXCEPT !.category = "work", !.todos = StoredTodos],
     [Email(5, RawMessage(2), PTodo) EXCEPT !.summary = NONE, !.events = StoredEvents],
     [Email(6, RawMessage(2), PEvent) EXCEPT
        !.todos = <<StoredTodos[2], StoredTodos[1]>>,
        !.events = <<StoredEvents[2]>>]}

\* the file is not there, or holds an earlier collection
StoreInit ==
    /\ batch_status = InitialStatus
    /\ status_file = File("absent", InitialStatus)
    /\ db_file \in {File("absent", <<>>),
                    File("ok", JsonDumpsEmails(<<Email(7, RawMessage(1), PTodo)>>))}
    /\ now = 0
    /\ rpc = [r \in Requests |-> "new"]
    /\ current_status = [r \in Requests |-> InitialStatus]
    /\ response = [r \in Requests |-> "none"]
    /\ ppc = [r \in Requests |-> "none"]
    /\ all_emails = [r \in Requests |-> <<>>]
    /\ raw_emails = [r \in Requests |-> Unset]
    /\ processed = [r \in Requests |-> Unset]
    /\ error_msg = [r \in Requests |-> ""]
    /\ tmp_file = [r \in Requests |-> FALSE]
    /\ job = [r \in Requests |-> "none"]
    /\ job_status = [r \in Requests |-> "none"]
    /\ result = [r \in Requests |-> <<>>]
    /\ d_emails = <<>>
    /\ d_output = <<>>
    /\ d_pc = "off"
    /\ d_result = NoResult
    /\ s_emails \in SeqsUpTo(StoredEmails, MaxStored)
    /\ s_pc = "save"
    /\ s_loaded = <<>>
    /\ ApiOff

\* save_processed_emails(emails): the file is opened for writing, which
\* empties it, and the text is written
save_processed_emails ==
    /\ s_pc = "save"
    /\ db_file' = File("ok", JsonDumpsEmails(s_emails))
    /\ s_pc' = "load"
    /\ UNCHANGED <<batch_status, status_file, now, reqvars, ppc, threadvars, demuxvars,
                   s_emails, s_loaded, apivars>>

\* load_processed_emails(): [] when there is no file, else the records
\* made from the file's document
load_processed_emails ==
    /\ s_pc = "load"
    /\ s_loaded' = IF db_file.state = "absent" THEN <<>> ELSE ParseEmails(db_file.content)
    /\ s_pc' = "loaded"
    /\ UNCHANGED <<batch_status, status_file, db_file, now, reqvars, ppc, threadvars,
                   demuxvars, s_emails, apivars>>

StoreNext == save_processed_emails \/ load_processed_emails

StoreSpec == StoreInit /\ [][StoreNext]_vars

\* ------------------------------------------------ validation endpoints
\* ISO timestamps, in the order of time, and a text that is none
IsoTimes == [i \in 1..MaxTime |-> "2025-01-01T1" \o ToString(i) \o ":00:00"]
NotADate == "invalid-date"

\* parsing a timestamp: raises on a text that is no ISO timestamp
FromIsoRaises(text) == \A i \in 1..MaxTime : IsoTimes[i] # text
FromIso(text) == CHOOSE i \in 1..MaxTime : IsoTimes[i] = text

Answer(success, message, data) ==
    [code |-> 200, success |-> success, message |-> message, data |-> data]

\* (a variant that lets through an event that ends when it starts)
CalendarEventAnswer_AllowsEqual(event) ==
    IF FromIsoRaises(event.start_date) \/ FromIsoRaises(event.end_date)
    THEN Answer(FALSE, "Invalid date format", <<>>)
    ELSE IF FromIso(event.end_date) < FromIso(event.start_date)
    THEN Answer(FALSE, "End date must be after start date", <<>>)
    ELSE Answer(TRUE, "Event validated successfully", <<Event(event)>>)

\* POST /calendar/event: both dates are parsed, and the end has to be
\* after the start
CalendarEventAnswer(event) ==
    IF FromIsoRaises(event.start_date) \/ FromIsoRaises(event.end_date)
    THEN Answer(FALSE, "Invalid date format", <<>>)
    ELSE IF FromIso(event.end_date) <= FromIso(event.start_date)
    THEN Answer(FALSE, "End date must be after start date", <<>>)
    ELSE Answer(TRUE, "Event validated successfully", <<Event(event)>>)

\* POST /reminders/todo: the priority has to be between 0 and 9 and a due
\* date that is given is parsed; a request that fails both checks gets the
\* message of either
ReminderAnswers(todo) ==
    LET faults ==
          (IF todo.priority < 0 \/ todo.priority > 9
           THEN {"Priority must be between 0 and 9"} ELSE {})
          \cup (IF todo.due_date # NONE /\ FromIsoRaises(todo.due_date)
                THEN {"Invalid date format"} ELSE {})
    IN IF faults = {}
       THEN {Answer(TRUE, "Reminder validated successfully", <<todo>>)}
       ELSE {Answer(FALSE, m, <<>>) : m \in faults}

\* the requests: events with a title and both dates, todos with a title
EventRequests ==
    {[EventIn("Test Meeting", a) EXCEPT !.end_date = b] :
        a \in {IsoTimes[i] : i \in 1..MaxTime} \cup {NotADate},
        b \in {IsoTimes[i] : i \in 1..MaxTime} \cup {NotADate}}
TodoRequests ==
    {[TodoIn("Task", pr) EXCEPT !.due_date = d] :
        pr \in {<<>>} \cup {<<n>> : n \in -2..11},
        d \in {ABSENT, NONE, NotADate, IsoTimes[1]}}

ApiInit ==
    /\ batch_status = InitialStatus
    /\ status_file = File("absent", InitialStatus)
    /\ db_file = File("absent", <<>>)
    /\ now = 0
    /\ rpc = [r \in Requests |-> "new"]
    /\ current_status = [r \in Requests |-> InitialStatus]
    /\ response = [r \in Requests |-> "none"]
    /\ ppc = [r \in Requests |-> "none"]
    /\ all_emails = [r \in Requests |-> <<>>]
    /\ raw_emails = [r \in Requests |-> Unset]
    /\ processed = [r \in Requests |-> Unset]
    /\ error_msg = [r \in Requests |-> ""]
    /\ tmp_file = [r \in Requests |-> FALSE]
    /\ job = [r \in Requests |-> "none"]
    /\ job_status = [r \in Requests |-> "none"]
    /\ result = [r \in Requests |-> <<>>]
    /\ d_emails = <<>>
    /\ d_output = <<>>
    /\ d_pc = "off"
    /\ d_result = NoResult
    /\ StoreOff
    /\ v_request \in {[path |-> "/calendar/event", body |-> e] : e \in EventRequests}
                    \cup {[path |-> "/reminders/todo", body |-> t] : t \in TodoRequests}
    /\ v_response = NoAnswer

\* the handler of POST /calendar/event
post_calendar_event ==
    /\ v_request.path = "/calendar/event" /\ v_response = NoAnswer
    /\ v_response' = CalendarEventAnswer(v_request.body)
    /\ UNCHANGED <<batch_status, status_file, db_file, now, reqvars, ppc, threadvars,
                   demuxvars, storevars, v_request>>

\* the handler of POST /reminders/todo, whose body is a Todo
post_reminders_todo ==
    /\ v_request.path = "/reminders/todo" /\ v_response = NoAnswer
    /\ v_response' \in ReminderAnswers(Todo(v_request.body))
    /\ UNCHANGED <<batch_status, status_file, db_file, now, reqvars, ppc, threadvars,
                   demuxvars, storevars, v_request>>

ApiNext == post_calendar_event \/ post_reminders_todo

ApiSpec == ApiInit /\ [][ApiNext]_vars

\* ============================================================ properties
Active(p) == ppc[p] \notin {"none", "done"}
JobFailed(p) == job[p] \in {"JOB_STATE_FAILED", "JOB_STATE_CANCELLED"}
OnlyRequest(p) == \A q \in Requests \ {p} : rpc[q] = "new"

\* C1: at most one background refresh pipeline is running at any time,
\* whatever the interleaving of concurrent refresh requests
C1_SingleFlight == Cardinality({p \in Requests : Active(p)}) <= 1

\* C2: a refresh request that begins after another one returned "started",
\* while the status is fetching or processing, returns "already_running"
\* and starts no pipeline
C2_SecondCallRejected ==
    [][\A r \in Requests :
         (/\ rpc[r] = "new" /\ rpc'[r] \notin {"new", "got"}
          /\ \E q \in Requests : response[q] = "started"
          /\ batch_status.status \in Running)
         => (response'[r] = "already_running" /\ ppc'[r] = "none")]_vars

\* C3: a cycle whose batch job ended failed or cancelled ends with status
\* "error" and count 0
C3_FailedJobEndsInError ==
    \A p \in Requests :
        (ppc[p] = "done" /\ JobFailed(p) /\ OnlyRequest(p))
        => (batch_status.status = "error" /\ batch_status.count = 0)

\* C4: a cycle whose upload or job creation failed ends with status "error"
\* and the reason in the message
C4_SubmitFailureEndsInError ==
    \A p \in Requests :
        (/\ ppc[p] = "done" /\ OnlyRequest(p)
         /\ raw_emails[p] # Unset /\ raw_emails[p][1] # <<>> /\ job[p] = "none")
        => (batch_status.status = "error" /\ batch_status.message # "")

\* C5: every change of the status follows idle -> fetching -> processing ->
\* completed | error, a new cycle starting from idle, completed or error
LifecycleStep(old, new) ==
    \/ new = "fetching" /\ old \in {"idle", "completed", "error", "fetching"}
    \/ new = "processing" /\ old = "fetching"
    \/ new = "completed" /\ old = "processing"
    \/ new = "error" /\ old \in {"fetching", "processing"}
C5_Lifecycle ==
    [][batch_status'.status # batch_status.status
         => LifecycleStep(batch_status.status, batch_status'.status)]_vars

LineKey(line) == IF line.custom_id # NoKey THEN line.custom_id ELSE line.key
KnownLines ==
    {i \in 1..Len(d_output) :
        /\ d_output[i].kind = "json"
        /\ \E j \in 1..Len(d_emails) : LineKey(d_output[i]) = ReqId(j - 1)}
Carries(rec, m) ==
    /\ rec.from_addr = (IF m.from = ABSENT THEN "Unknown" ELSE m.from)
    /\ rec.subject = m.subject
    /\ rec.date = m.receivedDateTime
    /\ rec.preview = m.bodyPreview
    /\ rec.body_html = m.body

\* C7: a batch of N requests yields at most N records, whatever the output
\* stream holds
C7_AtMostN ==
    d_pc = "returned" => Len(d_result.processed_emails) <= Len(d_emails)

\* C8: every record comes from an output line whose key is in the request
\* map and carries the fields of the message mapped to that key; lines
\* without a key or with a key outside the map give no record
C8_RecordsFromKnownKeys ==
    d_pc = "returned" =>
        LET recs == d_result.processed_emails
        IN /\ Len(recs) <= Cardinality(KnownLines)
           /\ \A k \in 1..Len(recs) :
                 \E i \in KnownLines :
                    Carries(recs[k], d_emails[LineKey(d_output[i])[2] + 1])
C8_Witness ==
    /\ d_pc = "returned" /\ Len(d_emails) = 2
    /\ Len(d_result.processed_emails) = 1
    /\ Len(d_output) = 2 /\ KnownLines = {2}
    /\ LineKey(d_output[1]) = ForeignKey /\ LineKey(d_output[2]) = ReqId(1)

\* a line whose answer text is "{}" or empty once the fences are stripped
NoContentLine(line) ==
    /\ line.kind = "json" /\ line.response.present /\ line.response.candidates # <<>>
    /\ LET found == FirstNonThought(line.response.candidates[1].parts)
       IN found # <<>> /\ Strip(StripFences(found[1])) \in {<<>>, <<Braces>>}
WithoutNoContent == SelectSeq(d_output, LAMBDA l : ~NoContentLine(l))

\* C9: a line whose answer is "{}" or empty gives no record and is no error:
\* the outcome is that of the stream without such lines, and no such line
\* is logged as failed
C9_EmptyAnswerSkipped ==
    d_pc = "returned" =>
        /\ d_result.raised = Demultiplex(d_emails, WithoutNoContent).raised
        /\ d_result.processed_emails
             = Demultiplex(d_emails, WithoutNoContent).processed_emails
        /\ \A i \in 1..Len(d_result.logged) : ~NoContentLine(d_output[d_result.logged[i]])
C9_Witness ==
    /\ d_pc = "returned" /\ Len(d_output) = 2
    /\ NoContentLine(d_output[1]) /\ LineKey(d_output[1]) = ReqId(0)
    /\ d_output[1].response.candidates[1].parts[1].text # <<>>
    /\ Len(d_result.processed_emails) = 1

\* a line that is no JSON, or whose answer text is no JSON
MalformedLine(line) ==
    \/ line.kind \in {"notjson", "badutf8"}
    \/ /\ line.kind = "json" /\ line.response.present /\ line.response.candidates # <<>>
       /\ LET found == FirstNonThought(line.response.candidates[1].parts)
          IN /\ found # <<>>
             /\ Strip(StripFences(found[1])) \notin {<<>>, <<Braces>>}
             /\ ~JsonLoadsOk(Strip(StripFences(found[1])))
WithoutMalformed == SelectSeq(d_output, LAMBDA l : ~MalformedLine(l))

\* C10: the records of a stream are those of the stream without its
\* malformed lines: a bad line never aborts the batch
C10_FaultIsolation ==
    d_pc = "returned" =>
        d_result.processed_emails
          = Demultiplex(d_emails, WithoutMalformed).processed_emails

\* what the claim asks of the output line of a message: it is JSON, its key
\* is the key of the message, its answer is neither empty nor "{}", and the
\* answer is an extraction (JSON whose entries are valid)
Extractable(line, i) ==
    /\ line.kind = "json" /\ LineKey(line) = ReqId(i - 1)
    /\ ~NoContentLine(line) /\ ~MalformedLine(line)
    /\ line.response.present /\ line.response.candidates # <<>>
    /\ FirstNonThought(line.response.candidates[1].parts) # <<>>
    /\ LET parsed == FirstNonThought(line.response.candidates[1].parts)[1][1].val
       IN /\ parsed.type = "object"
          /\ \A k \in 1..Len(parsed.todos) : parsed.todos[k].title # ABSENT
          /\ \A k \in 1..Len(parsed.events) : parsed.events[k].title # ABSENT
RecordsOf(i) ==
    {k \in 1..Len(d_result.processed_emails) :
        Carries(d_result.processed_emails[k], d_emails[i])}

\* C11: for a succeeded job whose stream has one line per message, the
\* returned collection holds a record of a message exactly when the line of
\* that message is JSON, has the key of the message, has an answer that is
\* neither empty nor "{}", and the answer parses as an extraction
C11_RecordIffGoodLine ==
    d_pc = "returned" =>
        \A i \in 1..Len(d_emails) : (RecordsOf(i) # {}) <=> Extractable(d_output[i], i)

\* C11, the scenario: answers "{}", unparsable text and one valid extraction
\* give exactly one record, that of the third message, with one todo and
\* no events
C11_Scenario ==
    (/\ d_pc = "returned"
     /\ d_output = <<AnswerLine(1, <<Braces>>), AnswerLine(2, <<Garbage>>),
                     AnswerLine(3, ValidText)>>)
    => /\ Len(d_result.processed_emails) = 1
       /\ RecordsOf(3) = {1}
       /\ Len(d_result.processed_emails[1].todos) = 1
       /\ Len(d_result.processed_emails[1].events) = 0

\* C12: no returned record holds an Event without a title or without a
\* start date: an events entry of the answer that has no start date is
\* never made an Event
C12_EventsHaveTitleAndStart ==
    d_pc = "returned" =>
        \A k \in 1..Len(d_result.processed_emails) :
            \A j \in 1..Len(d_result.processed_emails[k].events) :
                /\ d_result.processed_emails[k].events[j].title \notin {ABSENT, NONE}
                /\ d_result.processed_emails[k].events[j].start_date \notin {ABSENT, NONE}

\* C13: a cycle whose fetch returned no messages submits no batch job and
\* creates no upload file, and ends by writing status "completed" with
\* count 0
C13_EmptyFetchCompletes ==
    /\ [](\A p \in Requests :
            raw_emails[p] = Val(<<>>) =>
               /\ ~tmp_file[p] /\ job[p] = "none"
               /\ ppc[p] \notin {"submit", "poll", "download", "finally",
                                 "error_set", "error_upd", "error_write"}
               /\ (ppc[p] = "done" /\ OnlyRequest(p))
                    => /\ batch_status.status = "completed" /\ batch_status.count = 0
                       /\ status_file = File("ok", batch_status))
    /\ [][\A p \in Requests :
            raw_emails[p] = Val(<<>>) =>
               /\ (ppc[p] = "completed_set" /\ ppc'[p] # ppc[p])
                    => batch_status'.status = "completed"
               /\ (ppc[p] = "completed_upd" /\ ppc'[p] # ppc[p])
                    => batch_status'.count = 0]_vars
C13_Witness ==
    \E p \in Requests :
        /\ raw_emails[p] = Val(<<>>) /\ ppc[p] = "done" /\ OnlyRequest(p)
        /\ batch_status.status = "completed"
        /\ db_file = File("ok", JsonDumpsEmails(<<>>))

\* C14: a temp upload file exists only while the coordinator that created
\* it is at work: once process_with_gemini_batch has returned or raised,
\* on any path, the file is gone
C14_TempFileRemoved ==
    \A p \in Requests :
        tmp_file[p] => ppc[p] \in {"submit", "poll", "download", "finally"}

\* C15: the correlation keys of a batch are pairwise different, and no key
\* of a batch that is about to be submitted is a key of a batch of an
\* earlier cycle that has already finished
C15_KeysNeverReused ==
    /\ \A p \in Requests :
          raw_emails[p] # Unset =>
             \A i, j \in 1..Len(raw_emails[p][1]) :
                i # j => BatchKeys(raw_emails[p][1])[i] # BatchKeys(raw_emails[p][1])[j]
    /\ \A p, q \in Requests :
          (p # q /\ ppc[p] = "done" /\ job[p] # "none" /\ ppc[q] = "submit")
          => \A i \in 1..Len(raw_emails[p][1]), j \in 1..Len(raw_emails[q][1]) :
                BatchKeys(raw_emails[p][1])[i] # BatchKeys(raw_emails[q][1])[j]

\* the records an update_batch_status call of the program writes, and the
\* ones that exist before the first call
CompleteRecord(rec) ==
    \/ rec = InitialStatus
    \/ \E f \in LeftoverFiles : rec = f.content
    \/ /\ rec.last_updated >= 1
       /\ \/ /\ rec.status = "fetching" /\ rec.count = 0
             /\ rec.message \in {"Starting email refresh...",
                                 "Fetching emails from Microsoft Graph..."}
          \/ /\ rec.status = "processing" /\ rec.count = 0
             /\ \E n \in 0..MaxEmails : rec.message = ProcessingMessage(n)
          \/ /\ rec.status = "completed" /\ rec.count \in 0..MaxLines
             /\ rec.message = "Successfully processed emails"
          \/ /\ rec.status = "error" /\ rec.count = 0
             /\ rec.message \in {AuthError, WriteError}

\* C16: a read of the status taken at any moment (GET /refresh-status, the
\* load at the start of POST /refresh-emails, the batch_status a "started"
\* response carries) gives a record as one update wrote it in full: never
\* fields of two updates, never a file that is half written
C16_AtomicStatusReads ==
    [][\A r \in Requests :
         /\ (rpc[r] = "new" /\ rpc'[r] # "new")
              => (~LoadRaises /\ CompleteRecord(load_batch_status))
         /\ (rpc[r] = "respond" /\ rpc'[r] = "returned")
              => CompleteRecord(batch_status)]_vars

\* no update_batch_status call is under way
NoUpdateUnderWay ==
    /\ \A r \in Requests : rpc[r] \notin {"update", "write"}
    /\ \A p \in Requests :
          ppc[p] \notin {"fetching_upd", "fetching_write", "processing_upd",
                         "processing_write", "completed_upd", "completed_write",
                         "error_upd", "error_write"}

\* C17: GET /refresh-status, in whatever state it is called, changes neither
\* the status record and its file, nor the persisted collection, nor the
\* position and locals of the pipelines, and it returns a status: the one
\* written last (the record of the dict once an update of this run is
\* through)
C17_GetStatusPureRead ==
    [][\A r \in Requests :
         (rpc[r] = "new" /\ rpc'[r] = "got")
         => /\ UNCHANGED <<batch_status, status_file, db_file, now, ppc, threadvars>>
            /\ response'[r] = "status"
            /\ (NoUpdateUnderWay /\ now >= 1) => load_batch_status = batch_status]_vars

\* the cycle of p is in its poll loop and the provider reports no final state
Polling(p) == ppc[p] = "poll" /\ job[p] = "JOB_STATE_PENDING"
Terminal == {"JOB_STATE_SUCCEEDED", "JOB_STATE_FAILED", "JOB_STATE_CANCELLED"}

\* C18: the poll loop is left only on a job that succeeded, failed or was
\* cancelled; as long as the job reports another state, however many polls
\* that takes, the cycle stays in the loop, the status stays "processing",
\* the persisted collection is not written and every POST /refresh-emails
\* that arrives is answered "already_running"
C18_PollUntilTerminal ==
    /\ [][\A p \in Requests :
            (ppc[p] = "poll" /\ ppc'[p] # "poll") => job[p] \in Terminal]_vars
    /\ [](\A p \in Requests : Polling(p) => batch_status.status = "processing")
    /\ [][\A p \in Requests :
            (Polling(p) /\ job'[p] = job[p])
            => /\ ppc'[p] = "poll"
               /\ db_file' = db_file
               /\ \A r \in Requests :
                     (rpc[r] = "new" /\ rpc'[r] \notin {"new", "got"})
                     => (response'[r] = "already_running" /\ ppc'[r] = "none")]_vars

\* the answer of a line is there but is no extraction: its text is no JSON,
\* or one of its todo or event entries fails validation
FailsExtraction(line) ==
    /\ line.kind = "json" /\ line.response.present /\ line.response.candidates # <<>>
    /\ FirstNonThought(line.response.candidates[1].parts) # <<>>
    /\ ~NoContentLine(line)
    /\ \/ MalformedLine(line)
       \/ LET parsed == FirstNonThought(line.response.candidates[1].parts)[1][1].val
          IN \/ \E k \in 1..Len(parsed.todos) : parsed.todos[k].title = ABSENT
             \/ \E k \in 1..Len(parsed.events) : parsed.events[k].title = ABSENT
\* the record holds every todo and every event of the answer of the line
WholeRecord(rec, line) ==
    LET parsed == FirstNonThought(line.response.candidates[1].parts)[1][1].val
    IN /\ Len(rec.todos) = Len(parsed.todos)
       /\ Len(rec.events) = Len(parsed.events)
       /\ \A k \in 1..Len(rec.todos) : rec.todos[k].title = parsed.todos[k].title
       /\ \A k \in 1..Len(rec.events) : rec.events[k].title = parsed.events[k].title

\* C19: a record is built whole or not at all. A message whose answer does
\* not parse, or has a todo or event entry that fails validation, gets no
\* record in this call, and a record that is built holds all entries of its
\* answer; and every message handed to a call has its request in the batch,
\* whatever an earlier call made of it
C19_AllOrNothing ==
    d_pc = "returned" =>
        \A i \in 1..Len(d_emails) :
            /\ FailsExtraction(d_output[i]) => RecordsOf(i) = {}
            /\ \A k \in RecordsOf(i) :
                  WholeRecord(d_result.processed_emails[k], d_output[i])
            /\ BatchKeys(d_emails)[i] \in DOMAIN EmailMap(d_emails)
            /\ EmailMap(d_emails)[BatchKeys(d_emails)[i]] = d_emails[i]
C19_Witness ==
    /\ d_pc = "returned"
    /\ d_output[1] = AnswerLine(1, <<JsonTok(PPartlyBad)>>) /\ RecordsOf(1) = {}
    /\ d_output[2] = AnswerLine(2, <<Garbage>>) /\ RecordsOf(2) = {}
    /\ d_output[3] = AnswerLine(3, ValidText) /\ RecordsOf(3) = {1}

\* C19, over the cycles: a message that a finished cycle fetched and has no
\* record of is, in a cycle that fetches it again, part of the batch
C19_Resubmitted ==
    \A p, q \in Requests :
        (/\ p # q /\ processed[p] # Unset /\ raw_emails[q] # Unset
         /\ (tmp_file[q] \/ job[q] # "none"))
        => \A i \in 1..Len(raw_emails[p][1]) :
              (/\ \A k \in 1..Len(processed[p][1]) :
                     ~Carries(processed[p][1][k], raw_emails[p][1][i])
               /\ \E j \in 1..Len(raw_emails[q][1]) :
                     raw_emails[q][1][j] = raw_emails[p][1][i])
              => \E key \in DOMAIN EmailMap(raw_emails[q][1]) :
                    EmailMap(raw_emails[q][1])[key] = raw_emails[p][1][i]

\* C20: a page request that fails after k pages does not fail the cycle:
\* the pages fetched so far are kept, the fetch returns exactly their
\* messages, and the cycle goes on to "processing" with them; once the
\* fetch has returned, the cycle's error branch is not entered for it
C20_PageFailureNonFatal ==
    /\ [][\A p \in Requests :
            /\ (ppc[p] = "fetch_page" /\ ppc'[p] = "fetch_page")
                 => \E k \in 0..PageSize :
                       all_emails'[p] = all_emails[p] \o Page(all_emails[p], k)
            /\ (ppc[p] = "fetch_page" /\ ppc'[p] = "fetch_except")
                 => all_emails'[p] = all_emails[p]
            /\ (ppc[p] = "fetch_except" /\ ppc'[p] # ppc[p])
                 => /\ ppc'[p] = "processing_set"
                    /\ raw_emails'[p] = Val(all_emails[p])
                    /\ error_msg'[p] = error_msg[p]
            /\ (ppc[p] = "processing_set" /\ ppc'[p] # ppc[p])
                 => /\ batch_status'.status = "processing"
                    /\ batch_status'.message = ProcessingMessage(Len(raw_emails[p][1]))]_vars
    /\ [](\A p \in Requests :
            /\ ppc[p] = "fetch_except" => error_msg[p] = ""
            /\ (raw_emails[p] # Unset /\ error_msg[p] # "") => error_msg[p] = WriteError)
C20_Witness ==
    \E p \in Requests :
        /\ ppc[p] = "fetch_except" /\ all_emails[p] = Mailbox(1)
        /\ batch_status.status = "fetching" /\ OnlyRequest(p)

\* C21: a collection of records that is saved and then loaded comes back
\* equal to the saved one, field for field and in the same order, whether
\* it has no, one or several records and whatever the file held before
C21_RoundTrip == s_pc = "loaded" => s_loaded = s_emails
C21_Witness ==
    /\ s_pc = "loaded" /\ Len(s_emails) >= 2 /\ s_emails[1] # s_emails[2]
    /\ \E i \in 1..Len(s_emails) : \E k \in 1..Len(s_emails[i].events) :
          s_emails[i].events[k].location = NONE
    /\ s_loaded = s_emails

\* C22: an event whose end date is earlier than or equal to its start date
\* is answered with success false and the message 'End date must be after
\* start date'; it is never accepted
C22_EndAfterStart ==
    (/\ v_request.path = "/calendar/event" /\ v_response.code = 200
     /\ ~FromIsoRaises(v_request.body.start_date)
     /\ ~FromIsoRaises(v_request.body.end_date)
     /\ FromIso(v_request.body.end_date) <= FromIso(v_request.body.start_date))
    => /\ ~v_response.success
       /\ v_response.message = "End date must be after start date"
       /\ v_response.data = <<>>
C22_Witness ==
    /\ v_request.path = "/calendar/event" /\ v_response.code = 200
    /\ v_request.body.end_date = IsoTimes[2] /\ v_request.body.start_date = IsoTimes[2]
    /\ ~v_response.success

\* C23: a reminder's priority is an integer between 0 and 9: a priority
\* below 0 or above 9 is rejected (success false, with the message
\* 'Priority must be between 0 and 9' when nothing else is wrong with the
\* request), every priority from 0 to 9 is accepted, and 5 is used when
\* none is given
DueDateOk == v_request.body.due_date \in {ABSENT, NONE} \/ ~FromIsoRaises(v_request.body.due_date)
C24_RejectionChangesNothing ==
    /\ [][\A r \in Requests :
            (rpc[r] = "new" /\ response'[r] = "already_running")
            => UNCHANGED <<batch_status, status_file, db_file, now, ppc, threadvars>>]_vars
    /\ [](\A r \in Requests :
            response[r] = "already_running" => (rpc[r] = "returned" /\ ppc[r] = "none"))
C24_Witness ==
    \E r \in Requests, p \in Requests :
        /\ response[r] = "already_running" /\ response[p] = "started"
        /\ ppc[p] = "done" /\ ppc[r] = "none"
        /\ current_status[r].status = "processing"

\* C25: the answer of a response is the text of its first part that is no
\* thought, however many thoughts come before it: the record is made from
\* that text (no record when that text is "{}"), never from the text of a
\* thought or of a later part, and a response of thoughts only, or of no
\* parts, gives no record
ResponseParts == d_output[1].response.candidates[1].parts
NonThoughts == {i \in 1..Len(ResponseParts) : ~ResponseParts[i].thought}
C25_FirstNonThoughtPart ==
    d_pc = "returned" =>
       IF NonThoughts = {}
       THEN d_result.processed_emails = <<>>
       ELSE LET first == CHOOSE i \in NonThoughts : \A k \in NonThoughts : i <= k
                text == ResponseParts[first].text
            IN IF text = <<Braces>>
               THEN d_result.processed_emails = <<>>
               ELSE d_result.processed_emails = <<Email(1, d_emails[1], text[1].val)>>
C25_Witness ==
    /\ d_pc = "returned" /\ Len(ResponseParts) = 3
    /\ ResponseParts[1] = Part(TRUE, ValidText) /\ ResponseParts[2].thought
    /\ ResponseParts[3] = Part(FALSE, <<JsonTok(PSecond)>>)
    /\ Len(d_result.processed_emails) = 1
    /\ d_result.processed_emails[1].summary = "second"

\* the persisted collection: what the file holds
Stored == IF db_file.state = "ok" THEN ParseEmails(db_file.content) ELSE <<>>

\* no other request is under way and no other pipeline runs
Alone(p) ==
    \A q \in Requests \ {p} : ~Active(q) /\ rpc[q] \in {"new", "returned", "got"}

\* C26: the persisted collection is changed only by a cycle whose batch
\* job succeeded or whose fetch returned no messages; a cycle whose
\* submission failed or whose job ended failed or cancelled leaves it as
\* it was (stated for a cycle that runs with no other beside it)
C26_FailedCycleKeepsCollection ==
    [][\A p \in Requests :
         (ppc'[p] # ppc[p] /\ Alone(p) /\ Stored' # Stored)
         => (raw_emails[p] = Val(<<>>) \/ job[p] = "JOB_STATE_SUCCEEDED")]_vars

\* C27: a refresh request is answered "already_running" only while a
\* pipeline is at work or an accepted request is about to start one; after
\* a server that stopped in the middle of a cycle is started again, with
\* the status file still at "processing" and no pipeline, the next request
\* starts a cycle
C27_RejectedOnlyWhileRunning ==
    [][\A r \in Requests :
         (rpc[r] = "new" /\ response'[r] = "already_running")
         => \E p \in Requests : Active(p) \/ rpc[p] \in {"set", "update", "write"}]_vars

\* no request is being handled and no pipeline runs
NothingInFlight ==
    \A p \in Requests : ~Active(p) /\ rpc[p] \in {"new", "returned", "got"}

\* C28: when no refresh is in flight and the status is "completed", the
\* count of the status record is the number of records of the persisted
\* collection; and whenever the status is "fetching", "processing" or
\* "error" the count is 0 (the status record being the one a reader is
\* given)
C28_CountMatchesCollection ==
    ~LoadRaises =>
       /\ (NothingInFlight /\ load_batch_status.status = "completed")
             => load_batch_status.count = Len(Stored)
       /\ load_batch_status.status \in {"fetching", "processing", "error"}
             => load_batch_status.count = 0

\* C29: after a refresh request is answered "started", and given that the
\* fetch and every provider call return and that the job comes to an end,
\* the status a reader is given eventually is "completed" or "error"; a
\* refresh request that reads such a status is accepted
C29_EventuallyTerminal ==
    /\ (\E r \in Requests : response[r] = "started")
          ~> (~LoadRaises /\ load_batch_status.status \in {"completed", "error"})
    /\ [][\A r \in Requests :
            (/\ rpc[r] = "new" /\ rpc'[r] \notin {"new", "got"}
             /\ ~LoadRaises /\ load_batch_status.status \in {"completed", "error"})
            => rpc'[r] = "set"]_vars
C29_Witness ==
    \E r \in Requests, q \in Requests :
        /\ response[r] = "started" /\ ppc[r] = "done" /\ JobFailed(r)
        /\ ~LoadRaises /\ load_batch_status.status \in {"completed", "error"}
        /\ r # q /\ rpc[q] = "set" /\ current_status[q] = load_batch_status
====
